---- MODULE Spec2Model ----
(***************************************************************************)
(* A model of M9A_Update_Assistant.py: the update pipeline of              *)
(* M9AUpdateAssistant (release resolution, download with retry, archive    *)
(* verification, per-folder deployment, end-of-run cleanup).               *)
(*                                                                         *)
(* Strings that the program takes apart are sequences of tokens, so that   *)
(* pattern building, regex matching, globbing and prefix stripping are     *)
(* computed the way the code computes them:                                *)
(*   asset name   <<"M9A-win-x86_64-", "v", "1", "-", "Lite", ".zip">>      *)
(*   tag          <<"v", "1">>                                             *)
(*   digest       <<"sha256:", "a", "1">>                                  *)
(***************************************************************************)
EXTENDS Integers, Sequences, FiniteSets, TLC

VARIABLES
    pc,                 \* position in run_update / download_latest_release
    release_info,       \* the release descriptor fetched (None before / on failure)
    cli_zip_pattern,    \* self.cli_zip_pattern ('' until the release is parsed)
    gui_keyword,        \* gui_keyword of download_latest_release
    zip_dir,            \* files of temp_folder/ZIP: name -> archive
    local_files,        \* files find_lite_zip can see (temp_folder, cwd), in glob order
    downloaded_files,   \* downloaded_files of download_latest_release
    fetch,              \* download_file_with_progress: role, attempt, ret and counters
    cli_zip, gui_zip,   \* run_update's artifact paths
    need_extract_deps,  \* run_update's decision
    index,              \* 1-based position in self.m9a_folders
    config_backup_successful,
    all_success,
    config,             \* per folder: its config subtree (AbsentDir when missing)
    backup,             \* staging: backup key -> copied config tree (AbsentDir when missing)
    temp_exists,        \* whether temp_folder exists
    target,             \* per folder: what the run did to it
    run,                \* run-level record: return value, cleanup and pruning outcome
    fn,                 \* input and output of the pure functions checked on their own
    github_full_download_enabled,   \* [GitHub] full_download_enabled of the configuration
    m9a_folders,        \* self.m9a_folders, the target folders in configuration order
    temp_folder         \* [Paths] temp_folder of the configuration, as tokens

vars == <<pc, release_info, cli_zip_pattern, gui_keyword, zip_dir, local_files,
          downloaded_files, fetch, cli_zip, gui_zip, need_extract_deps, index,
          config_backup_successful, all_success, config, backup, temp_exists,
          target, run, fn, github_full_download_enabled,
          temp_folder, m9a_folders>>

None == "None"

----------------------------------------------------------------------------
(* Bounds of the model *)

\* number of folders in m9a_folders
NumTargets == 2
\* longest asset list of a release, for the asset-selection checks
MaxAssets == 3
\* hex digits of a digest (64 in the program)
HexLen == 2

(* Program constants *)
max_retries == 4

----------------------------------------------------------------------------
(* Sequence helpers *)

Range(s) == {s[i] : i \in 1..Len(s)}

RECURSIVE Flatten(_)
Flatten(ss) == IF ss = <<>> THEN <<>> ELSE Head(ss) \o Flatten(Tail(ss))

\* str.replace(old, new) on a token sequence; new is a token sequence
Replace(s, old, new) ==
    Flatten([i \in 1..Len(s) |-> IF s[i] = old THEN new ELSE <<s[i]>>])

\* s.startswith(p)
StartsWith(s, p) == Len(s) >= Len(p) /\ SubSeq(s, 1, Len(p)) = p

----------------------------------------------------------------------------
(* Release descriptors *)

NamePrefix == "M9A-win-x86_64-"

\* the name GitHub gives an asset of version ver and variant keyword kw
AssetName(ver, kw) == <<NamePrefix, "v", ver, "-", kw, ".zip">>

\* tokens that [\d.\-a-zA-Z]+ matches, and those that [\d.]+ matches
VersionTokens == {"1", "2", "1-rc"}
DigitTokens == {"1", "2"}

\* the two role labels of a release body
CmdLineLabel == "cmdline"
GuiLabel == "gui"

\* a body line "<token> = <label>"
MapLine(token, label) == [kind |-> "map", token |-> token, label |-> label]
\* a body line "<name> <tag>: <hex>", tag being some spelling of sha256
HashLine(name, tag, hex) == [kind |-> "hash", name |-> name, tag |-> tag, hex |-> hex]

Asset(name, size, digest) ==
    [name |-> name, size |-> size, digest |-> digest,
     browser_download_url |-> [base |-> "https://github.com/download/", file |-> name]]

\* a lookup that found no asset
NoUrl == [base |-> "", file |-> <<>>]

\* Path(url).name
UrlName(url) == url.file

\* re.findall(r'(\w+)\s*=\s*<label>', body)
FindAll(body, label) ==
    LET hit(l) == l.kind = "map" /\ l.label = label
        lines == SelectSeq(body, hit)
    IN  [i \in 1..Len(lines) |-> lines[i].token]

\* parse_release_keywords with the first mapping of a role taken
parse_release_keywords_First(info) ==
    IF info.body = <<>>
    THEN [cli |-> "Lite", gui |-> "Full", gui_keywords |-> <<"Full">>]
    ELSE LET cli_keywords == FindAll(info.body, CmdLineLabel)
             gui_keywords == FindAll(info.body, GuiLabel)
         IN  [cli |-> IF cli_keywords # <<>> THEN cli_keywords[1] ELSE "Lite",
              gui |-> IF gui_keywords # <<>> THEN gui_keywords[1] ELSE "Full",
              gui_keywords |-> IF gui_keywords # <<>> THEN gui_keywords ELSE <<"Full">>]

parse_release_keywords(info) ==
    IF info.body = <<>>
    THEN [cli |-> "Lite", gui |-> "Full", gui_keywords |-> <<"Full">>]
    ELSE LET cli_keywords == FindAll(info.body, CmdLineLabel)
             gui_keywords == FindAll(info.body, GuiLabel)
         IN  [cli |-> IF cli_keywords # <<>> THEN cli_keywords[Len(cli_keywords)] ELSE "Lite",
              gui |-> IF gui_keywords # <<>> THEN gui_keywords[Len(gui_keywords)] ELSE "Full",
              gui_keywords |-> IF gui_keywords # <<>> THEN gui_keywords ELSE <<"Full">>]

\* f'M9A-win-x86_64-v*-{keyword}.zip'
ZipPattern(keyword) == <<NamePrefix, "v", "*", "-", keyword, ".zip">>

\* re.match(pattern.replace('*', r'[\d.\-a-zA-Z]+'), name): anchored at the start only
ReMatch(pattern, name) ==
    /\ Len(name) >= Len(pattern)
    /\ \A i \in 1..Len(pattern) :
          IF pattern[i] = "*" THEN name[i] \in VersionTokens ELSE name[i] = pattern[i]

MatchedAssets(info, pattern) ==
    SelectSeq(info.assets, LAMBDA a : ReMatch(pattern, a.name))

\* find_download_url with select_smallest = False
find_download_url(info, pattern) ==
    LET matched_assets == MatchedAssets(info, pattern)
    IN  IF matched_assets = <<>> THEN NoUrl ELSE matched_assets[1].browser_download_url

\* list.sort(key = size): a stable insertion sort
RECURSIVE InsertBySize(_, _)
InsertBySize(a, sorted) ==
    IF sorted = <<>> THEN <<a>>
    ELSE IF a.size < Head(sorted).size THEN <<a>> \o sorted
    ELSE <<Head(sorted)>> \o InsertBySize(a, Tail(sorted))

RECURSIVE SortBySize(_)
SortBySize(s) ==
    IF s = <<>> THEN <<>>
    ELSE InsertBySize(s[Len(s)], SortBySize(SubSeq(s, 1, Len(s) - 1)))

\* name.split('-')[-1].replace('.zip', '')
KeywordOf(name) ==
    LET dashes == {i \in 1..Len(name) : name[i] = "-"}
        last == IF dashes = {} THEN 0 ELSE CHOOSE i \in dashes : \A j \in dashes : j <= i
    IN  Replace(SubSeq(name, last + 1, Len(name)), ".zip", <<>>)

\* all_gui_assets without the sort: the assets in the order they were collected
all_gui_assets_unsorted(info) ==
    LET gui_keywords == parse_release_keywords(info).gui_keywords
        per_pattern == [k \in 1..Len(gui_keywords) |->
                           MatchedAssets(info, ZipPattern(gui_keywords[k]))]
    IN  Flatten(per_pattern)

\* lines 741-774: every asset matching any full-variant pattern, the smallest first
all_gui_assets(info) ==
    LET gui_keywords == parse_release_keywords(info).gui_keywords
        per_pattern == [k \in 1..Len(gui_keywords) |->
                           MatchedAssets(info, ZipPattern(gui_keywords[k]))]
    IN  SortBySize(Flatten(per_pattern))

ResolveGui(info) ==
    LET found == all_gui_assets(info)
        gui_keywords == parse_release_keywords(info).gui_keywords
    IN  IF found # <<>>
        THEN [gui_url |-> found[1].browser_download_url,
              gui_keyword |-> KeywordOf(found[1].name)]
        ELSE [gui_url |-> NoUrl, gui_keyword |-> <<gui_keywords[1]>>]

----------------------------------------------------------------------------
(* Archives and their verification *)

\* str.lower() on the characters a digest is written with
LowerChar(c) == CASE c = "A" -> "a" [] c = "B" -> "b" [] OTHER -> c
Lower(s) == [i \in 1..Len(s) |-> LowerChar(s[i])]
LowerTag(t) == CASE t = "SHA256" -> "sha256" [] t = "Sha256" -> "sha256" [] OTHER -> t

\* a digest of HexLen equal digits
HexOf(c) == [i \in 1..HexLen |-> c]

\* an archive file: whether zipfile opens it, the SHA-256 of its bytes, whether it
\* has entries under deps/ and under config/, and the total uncompressed size of
\* all its entries and of its deps/ entries
Archive(valid, sha, has_deps, has_config, total_size, deps_size) ==
    [valid |-> valid, sha |-> sha, deps |-> has_deps, config |-> has_config,
     size |-> total_size, deps_size |-> deps_size]

\* what a path with no file behind it reads as
NoFile == [missing |-> TRUE]

\* hashlib's hexdigest(): lower-case hex
calculate_sha256(file) == file.sha

\* the digest field of an asset record: absent (get() gives ''), null, or text
NoDigest == <<>>
NullDigest == <<"null">>

\* results of the digest lookup: None, a hex string, or an exception
NoSha == [kind |-> "none"]
ShaRaise == [kind |-> "raise"]
Sha(hex) == [kind |-> "hex", hex |-> hex]

\* lines 892-898: digest.startswith('sha256:') and digest[7:]; a null digest has
\* no startswith
AssetDigest(info, asset_name) ==
    LET named == SelectSeq(info.assets, LAMBDA a : a.name = asset_name)
        hit(a) == a.digest = NullDigest \/ StartsWith(a.digest, <<"sha256:">>)
        hits == SelectSeq(named, hit)
    IN  IF hits = <<>> THEN NoSha
        ELSE IF hits[1].digest = NullDigest THEN ShaRaise
        ELSE Sha(Tail(hits[1].digest))

\* lines 900-912: the first body line naming the asset and sha256 (in any case)
\* that holds HexLen hex digits once lower-cased
BodyDigest(info, asset_name) ==
    LET hit(l) == /\ l.kind = "hash"
                  /\ StartsWith(l.name, asset_name)
                  /\ LowerTag(l.tag) = "sha256"
                  /\ Len(l.hex) >= HexLen
        lines == SelectSeq(info.body, hit)
    IN  IF lines = <<>> THEN NoSha ELSE Sha(SubSeq(Lower(lines[1].hex), 1, HexLen))

\* _get_asset_sha256 with the release body scanned before the asset records
get_asset_sha256_BodyFirst(info, asset_name) ==
    IF BodyDigest(info, asset_name) # NoSha
    THEN BodyDigest(info, asset_name)
    ELSE AssetDigest(info, asset_name)

\* _get_asset_sha256: the asset records first, the release body after them
get_asset_sha256(info, asset_name) ==
    IF AssetDigest(info, asset_name) # NoSha
    THEN AssetDigest(info, asset_name)
    ELSE BodyDigest(info, asset_name)

\* _verify_zip_integrity with the digest looked up before the archive is opened
verify_zip_integrity_DigestFirst(file, info, zip_filename) ==
    LET expected_sha256 == get_asset_sha256(info, zip_filename)
    IN  IF expected_sha256 = ShaRaise THEN "Raise"
        ELSE IF file = NoFile \/ ~file.valid THEN "False"
        ELSE IF expected_sha256 # NoSha /\ expected_sha256.hex # <<>>
             THEN IF calculate_sha256(file) # expected_sha256.hex THEN "False" ELSE "True"
             ELSE "True"

\* _verify_zip_integrity on the file found at a path: "True", "False", or "Raise"
\* when an exception leaves the function
verify_zip_integrity(file, info, zip_filename) ==
    IF file = NoFile \/ ~file.valid THEN "False"
    ELSE LET expected_sha256 == get_asset_sha256(info, zip_filename)
         IN  IF expected_sha256 = ShaRaise THEN "Raise"
             ELSE IF expected_sha256 # NoSha /\ expected_sha256.hex # <<>>
                  THEN IF calculate_sha256(file) # expected_sha256.hex THEN "False" ELSE "True"
                  ELSE "True"

----------------------------------------------------------------------------
(* The configuration and the environment of one run *)

\* self.m9a_folders
AllFolders == <<"Z:\\M9A", "E:\\M9A", "D:\\M9A_uejgtcuo", "D:\\M9A_iiwucoup">>

\* the folders of the configurations modelled: two unrelated installations, and
\* two installations whose paths have the same CRC-32
DefaultFolders == SubSeq(AllFolders, 1, NumTargets)
CollidingFolders == SubSeq(<<AllFolders[3], AllFolders[4], AllFolders[1], AllFolders[2]>>,
                           1, NumTargets)

\* f"{zlib.crc32(m9a_folder.encode()) & 0xffffffff:08x}", the backup folder's key
path_hash(m9a_folder) ==
    CASE m9a_folder = "Z:\\M9A" -> "01807820"
      [] m9a_folder = "E:\\M9A" -> "f300c86e"
      [] m9a_folder = "D:\\M9A_uejgtcuo" -> "c237e4fd"
      [] m9a_folder = "D:\\M9A_iiwucoup" -> "c237e4fd"

BackupKeys == {path_hash(AllFolders[i]) : i \in 1..Len(AllFolders)}

\* a directory that does not exist
AbsentDir == [missing |-> TRUE]

\* config trees: file name -> content
UserConfig == [f \in {"user.json"} |-> "mine"]
StaleConfig == [f \in {"old.json"} |-> "stale"]
OtherConfig == [f \in {"other.json"} |-> "theirs"]
ArtifactConfig == [f \in {"user.json", "default.json"} |-> "shipped"]

\* shutil.copytree(src, dst, dirs_exist_ok=True): dst is created when missing,
\* files of src replace files of dst, other files of dst stay
CopyTree(src, dst) ==
    IF dst = AbsentDir THEN src
    ELSE [f \in DOMAIN dst \cup DOMAIN src |-> IF f \in DOMAIN src THEN src[f] ELSE dst[f]]

\* the archives of the model
LiteA == Archive(TRUE, HexOf("a"), FALSE, FALSE, 10, 0)
LiteDeps == Archive(TRUE, HexOf("b"), TRUE, FALSE, 10, 4)
LiteEmpty == Archive(TRUE, HexOf("c"), FALSE, FALSE, 0, 0)
LiteCfg == Archive(TRUE, HexOf("f"), FALSE, TRUE, 10, 0)
FullA == Archive(TRUE, HexOf("d"), TRUE, FALSE, 20, 4)
FullNoDeps == Archive(TRUE, HexOf("e"), FALSE, FALSE, 20, 0)
FullEmptyDeps == Archive(TRUE, HexOf("0"), TRUE, FALSE, 20, 0)
Corrupt == Archive(FALSE, HexOf("1"), FALSE, FALSE, 0, 0)

\* what the server may send for an asset of each role
Served(role) ==
    IF role = "cli" THEN {LiteA, LiteDeps, LiteEmpty, LiteCfg, Corrupt}
    ELSE {FullA, FullNoDeps, FullEmptyDeps, Corrupt}

\* the releases get_latest_release_info may return in a run (None when the request
\* fails): with and without published digests, and lacking either asset
TagV1 == <<"v", "1">>
LiteName == AssetName("1", "Lite")
FullName == AssetName("1", "Full")
NoRelease == [missing |-> TRUE]
Release(tag, body, assets) == [tag_name |-> tag, body |-> body, assets |-> assets]
RunReleases ==
    { Release(TagV1, <<>>, <<Asset(LiteName, 10, <<"sha256:">> \o HexOf("a")),
                             Asset(FullName, 20, <<"sha256:">> \o HexOf("d"))>>),
      Release(TagV1, <<>>, <<Asset(LiteName, 10, NoDigest), Asset(FullName, 20, NoDigest)>>),
      Release(TagV1, <<>>, <<Asset(FullName, 20, NoDigest)>>),
      Release(TagV1, <<>>, <<Asset(LiteName, 10, NoDigest)>>) }

\* paths: the directory (temp_folder/ZIP, temp_folder, the working directory) and
\* the file name
NoPath == [dir |-> "", name |-> <<>>]
ZipPath(name) == [dir |-> "ZIP", name |-> name]
\* values of [Paths] temp_folder: the default next to the script, a folder whose
\* path holds the default token of the minimal variant, and a folder inside the
\* first target folder
DefaultTemp == <<"Z:\\Temp\\", "M9A", "-Update-Assistant">>
LiteTemp == <<"Z:\\M9A-", "Lite", "\\Temp">>
NestedTemp == <<"Z:\\M9A", "\\", "Temp">>

\* str(path) as tokens
PathText(path) ==
    IF path.dir = "ZIP" THEN temp_folder \o <<"\\", "ZIP", "\\">> \o path.name
    ELSE IF path.dir = "temp" THEN temp_folder \o <<"\\">> \o path.name
    ELSE <<"C:\\work\\">> \o path.name

\* keyword in file_path
InText(keyword, text) ==
    \E i \in 1..(Len(text) - Len(keyword) + 1) :
        SubSeq(text, i, i + Len(keyword) - 1) = keyword

\* the file behind a path
FileAt(path) ==
    IF path.dir = "ZIP"
    THEN IF temp_exists /\ path.name \in DOMAIN zip_dir THEN zip_dir[path.name] ELSE NoFile
    ELSE LET at == SelectSeq(local_files, LAMBDA l : l.dir = path.dir /\ l.name = path.name)
         IN  IF at = <<>> \/ (path.dir = "temp" /\ ~temp_exists) THEN NoFile ELSE at[1].file

\* open(path, 'wb') and the writes that follow
WriteFile(dir, name, file) ==
    [n \in DOMAIN dir \cup {name} |-> IF n = name THEN file ELSE dir[n]]

\* check_lite_zip_has_deps: False as well when the file cannot be opened
check_lite_zip_has_deps(file) == file # NoFile /\ file.valid /\ file.deps

----------------------------------------------------------------------------
(* The initial state: a configured assistant before run_update *)

NoFetch == [role |-> "none", attempt |-> 0, tries |-> 0, fails |-> 0, ret |-> "none"]
NoRun == [ret |-> "none", abort |-> "none", fetched |-> {}, cached |-> {},
          looked |-> {}, calls |-> [role \in {"cli", "gui"} |-> 0], stale |-> {},
          cleanup |-> "none", pruned |-> "none"]
NoTarget == [result |-> "none", backup_failed |-> FALSE, wiped |-> FALSE, installed |-> NoPath,
             restored |-> FALSE, deps |-> NoPath, config0 |-> AbsentDir]

\* what an earlier run may have left in temp_folder/ZIP
InitZipDirs ==
    { <<>>,
      [n \in {LiteName} |-> LiteA],
      [n \in {LiteName} |-> Corrupt],
      [n \in {FullName} |-> FullA],
      [n \in {LiteName, FullName} |-> IF n = LiteName THEN LiteA ELSE FullA] }

\* archives lying in the working directory
InitLocalFiles ==
    { <<>>, <<[dir |-> "cwd", name |-> LiteName, file |-> LiteA]>> }

\* the config subtrees of the folders when the run starts: the first folder has
\* one of the trees or none, and so have, all alike, the folders after it
InitConfigs(configs) ==
    {[i \in 1..NumTargets |-> IF i = 1 THEN first ELSE others] :
        first \in configs, others \in configs}

InitRun(p, r, z, l, f, configs, stale) ==
    /\ pc = p
    /\ release_info = r
    /\ cli_zip_pattern = IF r = NoRelease THEN <<>>
                         ELSE ZipPattern(parse_release_keywords(r).cli)
    /\ gui_keyword = IF r = NoRelease THEN <<>> ELSE ResolveGui(r).gui_keyword
    /\ zip_dir = z
    /\ local_files = l
    /\ downloaded_files = <<>>
    /\ fetch = f
    /\ cli_zip = NoPath
    /\ gui_zip = NoPath
    /\ need_extract_deps = TRUE
    /\ index = 0
    /\ config_backup_successful = FALSE
    /\ all_success = TRUE
    /\ config \in InitConfigs(configs)
    /\ backup \in {[k \in BackupKeys |-> IF k = path_hash(m9a_folders[1]) THEN b ELSE AbsentDir] :
                      b \in stale}
    /\ temp_exists = TRUE
    /\ target = [i \in 1..NumTargets |-> [NoTarget EXCEPT !.config0 = config[i]]]
    /\ run = NoRun
    /\ fn = [op |-> "none"]

\* the configurations and surroundings a run starts in: the default staging folder
\* with every content of temp_folder/ZIP and of the working directory; a fresh
\* staging folder whose path holds the minimal variant's token; two target folders
\* whose paths have the same CRC-32; a staging folder inside the first target
InitEnv(p) ==
    \/ /\ m9a_folders = DefaultFolders
       /\ \E z \in InitZipDirs, l \in InitLocalFiles :
             InitRun(p, NoRelease, z, l, NoFetch, {AbsentDir, UserConfig},
                     {AbsentDir, StaleConfig})
       /\ github_full_download_enabled \in BOOLEAN
       /\ temp_folder = DefaultTemp
    \/ /\ m9a_folders = DefaultFolders
       /\ InitRun(p, NoRelease, <<>>, <<>>, NoFetch, {AbsentDir, UserConfig}, {AbsentDir})
       /\ github_full_download_enabled = TRUE
       /\ temp_folder \in {LiteTemp, NestedTemp}
    \/ /\ m9a_folders = CollidingFolders
       /\ InitRun(p, NoRelease, <<>>, <<>>, NoFetch, {UserConfig, OtherConfig}, {AbsentDir})
       /\ github_full_download_enabled = TRUE
       /\ temp_folder = DefaultTemp

Init == InitEnv("start")
----------------------------------------------------------------------------
(* download_latest_release *)

\* tag_name.replace('v', '')
version_pattern(info) == Replace(info.tag_name, "v", <<>>)

cli_url(info) == find_download_url(info, ZipPattern(parse_release_keywords(info).cli))
gui_url(info) == ResolveGui(info).gui_url

\* download_dir.glob(pattern): the names of temp_folder/ZIP equal to the pattern
\* (a pattern without wildcard once the version is filled in)
Glob(pattern) == {n \in DOMAIN zip_dir : n = pattern}

\* line 786: cli_zip_pattern.replace('*', version_pattern)
CliCachePattern(info) ==
    Replace(ZipPattern(parse_release_keywords(info).cli), "*", version_pattern(info))

\* line 831: f"M9A-win-x86_64-{version_pattern}-{gui_keyword}.zip"
GuiCachePattern(info) ==
    <<NamePrefix>> \o version_pattern(info) \o <<"-">> \o ResolveGui(info).gui_keyword \o <<".zip">>

CachePattern(role, info) ==
    IF role = "cli" THEN CliCachePattern(info) ELSE GuiCachePattern(info)

RoleUrl(role, info) == IF role = "cli" THEN cli_url(info) ELSE gui_url(info)

\* ReturnNone with the failed download treated as a result
ReturnNone_AsResult(why) ==
    /\ pc' = "result"
    /\ run' = [run EXCEPT !.abort = why]

\* download_latest_release returns None: run_update goes on to its local lookup
ReturnNone(why) ==
    /\ pc' = "find_lite"
    /\ run' = [run EXCEPT !.abort = why]

Raise ==
    /\ pc' = "raised"
    /\ run' = [run EXCEPT !.ret = "Raise"]

\* lines 717-774, up to the test of cli_url at line 781
ResolveRelease ==
    /\ pc = "start"
    /\ \E info \in RunReleases \cup {NoRelease} :
         /\ release_info' = info
         /\ IF info = NoRelease
            THEN /\ ReturnNone("release")
                 /\ UNCHANGED <<cli_zip_pattern, gui_keyword>>
            ELSE /\ cli_zip_pattern' = ZipPattern(parse_release_keywords(info).cli)
                 /\ gui_keyword' = ResolveGui(info).gui_keyword
                 /\ IF cli_url(info) = NoUrl
                    THEN ReturnNone("no_cli_asset")
                    ELSE pc' = "cli_cache" /\ UNCHANGED run
    /\ temp_exists' = TRUE
    /\ UNCHANGED <<zip_dir, local_files, downloaded_files, fetch, cli_zip, gui_zip,
                   need_extract_deps, index, config_backup_successful, all_success,
                   config, backup, target, fn, temp_folder,
                   github_full_download_enabled, m9a_folders>>

\* lines 785-796 (role cli) and 830-841 (role gui): the cached file, if the glob
\* finds one, is verified; it is used when it passes and fetched again otherwise
CheckCache(role) ==
    /\ pc = role \o "_cache"
    /\ LET name == UrlName(RoleUrl(role, release_info))
           found == Glob(CachePattern(role, release_info))
           present == name \in DOMAIN zip_dir
                        /\ verify_zip_integrity(zip_dir[name], release_info, name) = "True"
           noted == [run EXCEPT !.cached = IF present THEN @ \cup {role} ELSE @,
                                !.looked = @ \cup {role}]
           called == [noted EXCEPT !.calls[role] = @ + 1]
       IN  IF found = {}
           THEN /\ pc' = role \o "_download"
                /\ fetch' = [NoFetch EXCEPT !.role = role]
                /\ run' = called
                /\ UNCHANGED downloaded_files
           ELSE \E n \in found :
                  LET ok == verify_zip_integrity(zip_dir[n], release_info, name)
                  IN  CASE ok = "True" ->
                             /\ downloaded_files' = Append(downloaded_files, ZipPath(n))
                             /\ pc' = IF role = "cli" THEN "check_deps" ELSE "result"
                             /\ run' = noted
                             /\ UNCHANGED fetch
                        [] ok = "False" ->
                             /\ pc' = role \o "_download"
                             /\ fetch' = [NoFetch EXCEPT !.role = role]
                             /\ run' = [called EXCEPT !.stale = @ \cup {role}]
                             /\ UNCHANGED downloaded_files
                        [] OTHER ->
                             /\ Raise
                             /\ UNCHANGED <<downloaded_files, fetch>>
    /\ UNCHANGED <<release_info, cli_zip_pattern, gui_keyword, zip_dir, local_files,
                   cli_zip, gui_zip, need_extract_deps, index, config_backup_successful,
                   all_success, config, backup, temp_exists, target, fn, temp_folder,
                   github_full_download_enabled, m9a_folders>>

CheckCliCache == CheckCache("cli")
CheckGuiCache == CheckCache("gui")

\* DownloadAttempt with one pass too many: the last pass is recognised one late
DownloadAttempt_ExtraPass ==
    /\ pc \in {"cli_download", "gui_download"}
    /\ fetch.ret = "none"
    /\ fetch.attempt < max_retries + 1
    /\ LET name == UrlName(RoleUrl(fetch.role, release_info))
       IN  \E outcome \in {"ok", "request_failed", "write_failed"} :
             \E file \in Served(fetch.role) :
               /\ outcome # "ok" => file = Corrupt
               /\ zip_dir' = IF outcome = "request_failed" THEN zip_dir
                             ELSE WriteFile(zip_dir, name, file)
               /\ fetch' = IF outcome = "ok"
                           THEN [fetch EXCEPT !.tries = @ + 1, !.ret = "True"]
                           ELSE IF fetch.attempt < max_retries
                           THEN [fetch EXCEPT !.tries = @ + 1, !.fails = @ + 1,
                                              !.attempt = @ + 1]
                           ELSE [fetch EXCEPT !.tries = @ + 1, !.fails = @ + 1,
                                              !.ret = "False"]
    /\ run' = [run EXCEPT !.fetched = @ \cup {fetch.role}]
    /\ UNCHANGED <<pc, release_info, cli_zip_pattern, gui_keyword, local_files,
                   downloaded_files, cli_zip, gui_zip, need_extract_deps, index,
                   config_backup_successful, all_success, config, backup, temp_exists,
                   target, fn, temp_folder,
                   github_full_download_enabled, m9a_folders>>

\* DownloadAttempt with a write failure that ends the loop at once
DownloadAttempt_WriteFatal ==
    /\ pc \in {"cli_download", "gui_download"}
    /\ fetch.ret = "none"
    /\ fetch.attempt < max_retries
    /\ LET name == UrlName(RoleUrl(fetch.role, release_info))
       IN  \E outcome \in {"ok", "request_failed", "write_failed"} :
             \E file \in Served(fetch.role) :
               /\ outcome # "ok" => file = Corrupt
               /\ zip_dir' = IF outcome = "request_failed" THEN zip_dir
                             ELSE WriteFile(zip_dir, name, file)
               /\ fetch' = IF outcome = "ok"
                           THEN [fetch EXCEPT !.tries = @ + 1, !.ret = "True"]
                           ELSE IF outcome = "write_failed"
                           THEN [fetch EXCEPT !.tries = @ + 1, !.fails = @ + 1,
                                              !.ret = "False"]
                           ELSE IF fetch.attempt < max_retries - 1
                           THEN [fetch EXCEPT !.tries = @ + 1, !.fails = @ + 1,
                                              !.attempt = @ + 1]
                           ELSE [fetch EXCEPT !.tries = @ + 1, !.fails = @ + 1,
                                              !.ret = "False"]
    /\ run' = [run EXCEPT !.fetched = @ \cup {fetch.role}]
    /\ UNCHANGED <<pc, release_info, cli_zip_pattern, gui_keyword, local_files,
                   downloaded_files, cli_zip, gui_zip, need_extract_deps, index,
                   config_backup_successful, all_success, config, backup, temp_exists,
                   target, fn, temp_folder,
                   github_full_download_enabled, m9a_folders>>

\* one pass of the loop of download_file_with_progress (lines 647-702): the request
\* and the streamed write succeed, or the request fails, or the write breaks off
\* after the file was opened; a failure is followed by the wait and the next pass
\* while passes remain
DownloadAttempt ==
    /\ pc \in {"cli_download", "gui_download"}
    /\ fetch.ret = "none"
    /\ fetch.attempt < max_retries
    /\ LET name == UrlName(RoleUrl(fetch.role, release_info))
       IN  \E outcome \in {"ok", "request_failed", "write_failed"} :
             \E file \in Served(fetch.role) :
               /\ outcome # "ok" => file = Corrupt
               /\ zip_dir' = IF outcome = "request_failed" THEN zip_dir
                             ELSE WriteFile(zip_dir, name, file)
               /\ fetch' = IF outcome = "ok"
                           THEN [fetch EXCEPT !.tries = @ + 1, !.ret = "True"]
                           ELSE IF fetch.attempt < max_retries - 1
                           THEN [fetch EXCEPT !.tries = @ + 1, !.fails = @ + 1,
                                              !.attempt = @ + 1]
                           ELSE [fetch EXCEPT !.tries = @ + 1, !.fails = @ + 1,
                                              !.ret = "False"]
    /\ run' = [run EXCEPT !.fetched = @ \cup {fetch.role}]
    /\ UNCHANGED <<pc, release_info, cli_zip_pattern, gui_keyword, local_files,
                   downloaded_files, cli_zip, gui_zip, need_extract_deps, index,
                   config_backup_successful, all_success, config, backup, temp_exists,
                   target, fn, temp_folder,
                   github_full_download_enabled, m9a_folders>>

\* VerifyDownload with a fetched copy that fails verification fetched once more
VerifyDownload_Refetch ==
    /\ pc \in {"cli_download", "gui_download"}
    /\ fetch.ret # "none"
    /\ LET role == fetch.role
           name == UrlName(RoleUrl(role, release_info))
           ok == verify_zip_integrity(FileAt(ZipPath(name)), release_info, name)
       IN  IF fetch.ret = "False"
           THEN ReturnNone(role \o "_download") /\ UNCHANGED downloaded_files
           ELSE CASE ok = "True" ->
                       /\ downloaded_files' = Append(downloaded_files, ZipPath(name))
                       /\ pc' = IF role = "cli" THEN "check_deps" ELSE "result"
                       /\ UNCHANGED run
                  [] ok = "False" ->
                       /\ run' = [run EXCEPT !.calls[role] = @ + 1]
                       /\ UNCHANGED <<pc, downloaded_files>>
                  [] OTHER ->
                       Raise /\ UNCHANGED downloaded_files
    /\ fetch' = [NoFetch EXCEPT !.role = fetch.role]
    /\ UNCHANGED <<release_info, cli_zip_pattern, gui_keyword, zip_dir, local_files,
                   cli_zip, gui_zip, need_extract_deps, index, config_backup_successful,
                   all_success, config, backup, temp_exists, target, fn, temp_folder,
                   github_full_download_enabled, m9a_folders>>

\* lines 800-808 (role cli) and 845-853 (role gui): the value the download returned
\* is tested, and a fetched file is verified
VerifyDownload ==
    /\ pc \in {"cli_download", "gui_download"}
    /\ fetch.ret # "none"
    /\ LET role == fetch.role
           name == UrlName(RoleUrl(role, release_info))
           ok == verify_zip_integrity(FileAt(ZipPath(name)), release_info, name)
       IN  IF fetch.ret = "False"
           THEN ReturnNone(role \o "_download") /\ UNCHANGED downloaded_files
           ELSE CASE ok = "True" ->
                       /\ downloaded_files' = Append(downloaded_files, ZipPath(name))
                       /\ pc' = IF role = "cli" THEN "check_deps" ELSE "result"
                       /\ UNCHANGED run
                  [] ok = "False" ->
                       ReturnNone(role \o "_verify") /\ UNCHANGED downloaded_files
                  [] OTHER ->
                       Raise /\ UNCHANGED downloaded_files
    /\ fetch' = NoFetch
    /\ UNCHANGED <<release_info, cli_zip_pattern, gui_keyword, zip_dir, local_files,
                   cli_zip, gui_zip, need_extract_deps, index, config_backup_successful,
                   all_success, config, backup, temp_exists, target, fn, temp_folder,
                   github_full_download_enabled, m9a_folders>>

\* CheckNeedGui without the look into the minimal archive
CheckNeedGui_NoInspection ==
    /\ pc = "check_deps"
    /\ LET need_gui_download ==
               github_full_download_enabled
       IN  pc' = IF need_gui_download /\ gui_url(release_info) # NoUrl
                 THEN "gui_cache" ELSE "result"
    /\ UNCHANGED <<release_info, cli_zip_pattern, gui_keyword, zip_dir, local_files,
                   downloaded_files, fetch, cli_zip, gui_zip, need_extract_deps, index,
                   config_backup_successful, all_success, config, backup, temp_exists,
                   target, run, fn, temp_folder,
                   github_full_download_enabled, m9a_folders>>

\* lines 813-826 and 854-861: whether the full artifact is needed
CheckNeedGui ==
    /\ pc = "check_deps"
    /\ LET need_gui_download ==
               /\ ~check_lite_zip_has_deps(FileAt(downloaded_files[1]))
               /\ github_full_download_enabled
       IN  pc' = IF need_gui_download /\ gui_url(release_info) # NoUrl
                 THEN "gui_cache" ELSE "result"
    /\ UNCHANGED <<release_info, cli_zip_pattern, gui_keyword, zip_dir, local_files,
                   downloaded_files, fetch, cli_zip, gui_zip, need_extract_deps, index,
                   config_backup_successful, all_success, config, backup, temp_exists,
                   target, run, fn, temp_folder,
                   github_full_download_enabled, m9a_folders>>

----------------------------------------------------------------------------
(* run_update *)

\* lines 1077-1081: the loop over downloaded_files
RECURSIVE AssignZips(_, _, _, _)
AssignZips(files, cli_keyword, gui_kw, acc) ==
    IF files = <<>> THEN acc
    ELSE LET file_path == Head(files)
             next == IF InText(<<cli_keyword>>, PathText(file_path))
                     THEN [acc EXCEPT !.cli_zip = file_path]
                     ELSE IF InText(gui_kw, PathText(file_path))
                     THEN [acc EXCEPT !.gui_zip = file_path]
                     ELSE acc
         IN  AssignZips(Tail(files), cli_keyword, gui_kw, next)

\* lines 1072-1081: download_latest_release returned its dictionary
UseDownloadResult ==
    /\ pc = "result"
    /\ LET zips == AssignZips(downloaded_files, parse_release_keywords(release_info).cli,
                              gui_keyword, [cli_zip |-> NoPath, gui_zip |-> NoPath])
       IN  /\ cli_zip' = zips.cli_zip
           /\ gui_zip' = zips.gui_zip
    /\ pc' = "find_lite"
    /\ UNCHANGED <<release_info, cli_zip_pattern, gui_keyword, zip_dir, local_files,
                   downloaded_files, fetch, need_extract_deps, index,
                   config_backup_successful, all_success, config, backup, temp_exists,
                   target, run, fn, temp_folder,
                   github_full_download_enabled, m9a_folders>>

\* re.compile(pattern.replace('*', r'[\d.]+')).match(name); the empty pattern of a
\* run that parsed no release matches every name
ReMatchDigits(pattern, name) ==
    /\ Len(name) >= Len(pattern)
    /\ \A i \in 1..Len(pattern) :
          IF pattern[i] = "*" THEN name[i] \in DigitTokens ELSE name[i] = pattern[i]

\* glob('M9A-win-x86_64-v*-*.zip')
GlobZip(name) ==
    /\ Len(name) >= 4 /\ name[1] = NamePrefix /\ name[2] = "v"
    /\ name[Len(name)] = ".zip" /\ \E i \in 3..Len(name) : name[i] = "-"

\* find_lite_zip: the first archive of temp_folder and of the working directory
\* whose name matches
find_lite_zip ==
    LET seen(l) == /\ l.dir = "temp" => temp_exists
                   /\ GlobZip(l.name)
                   /\ ReMatchDigits(cli_zip_pattern, l.name)
        cli_zip_files == SelectSeq(local_files, seen)
    IN  IF cli_zip_files = <<>> THEN NoPath
        ELSE [dir |-> cli_zip_files[1].dir, name |-> cli_zip_files[1].name]

\* FindLiteZip without the return at line 1089: the run goes on with no archive
FindLiteZip_NoReturn ==
    /\ pc = "find_lite"
    /\ pc' = "decide"
    /\ cli_zip' = IF cli_zip # NoPath THEN cli_zip ELSE find_lite_zip
    /\ UNCHANGED <<release_info, cli_zip_pattern, gui_keyword, zip_dir, local_files,
                   downloaded_files, fetch, gui_zip, need_extract_deps, index,
                   config_backup_successful, all_success, config, backup, temp_exists,
                   target, run, fn, temp_folder,
                   github_full_download_enabled, m9a_folders>>

\* lines 1083-1091: without an artifact from the download, a local archive is
\* looked for; the run ends when there is none
FindLiteZip ==
    /\ pc = "find_lite"
    /\ IF cli_zip # NoPath
       THEN /\ pc' = "decide"
            /\ UNCHANGED <<cli_zip, run>>
       ELSE IF find_lite_zip = NoPath
       THEN /\ pc' = "done"
            /\ run' = [run EXCEPT !.ret = "False"]
            /\ UNCHANGED cli_zip
       ELSE /\ pc' = "decide"
            /\ cli_zip' = find_lite_zip
            /\ UNCHANGED run
    /\ UNCHANGED <<release_info, cli_zip_pattern, gui_keyword, zip_dir, local_files,
                   downloaded_files, fetch, gui_zip, need_extract_deps, index,
                   config_backup_successful, all_success, config, backup, temp_exists,
                   target, fn, temp_folder,
                   github_full_download_enabled, m9a_folders>>

\* lines 1093-1104: the decision on dependency extraction, and the loop's start
DecideDeps ==
    /\ pc = "decide"
    /\ need_extract_deps' = (~check_lite_zip_has_deps(FileAt(cli_zip)) /\ gui_zip # NoPath)
    /\ all_success' = TRUE
    /\ index' = 1
    /\ pc' = "backup"
    /\ UNCHANGED <<release_info, cli_zip_pattern, gui_keyword, zip_dir, local_files,
                   downloaded_files, fetch, cli_zip, gui_zip, config_backup_successful,
                   config, backup, temp_exists, target, run, fn, temp_folder,
                   github_full_download_enabled, m9a_folders>>

\* `continue`, or the end of the loop body: the next folder, or the end of the loop
NextTarget(result) ==
    /\ target' = [target EXCEPT ![index].result = result]
    /\ index' = index + 1
    /\ pc' = IF index < Len(m9a_folders) THEN "backup" ELSE "cleanup"

Key(i) == path_hash(m9a_folders[i])

\* backup_config and lines 1109-1111: False when there is no config folder and
\* when the copy fails; the loop goes on either way
BackupConfig ==
    /\ pc = "backup"
    /\ IF config[index] = AbsentDir
       THEN /\ config_backup_successful' = FALSE
            /\ UNCHANGED <<backup, temp_exists, target>>
       ELSE \E copied \in BOOLEAN :
              /\ config_backup_successful' = copied
              /\ temp_exists' = TRUE
              /\ backup' = IF copied
                           THEN [backup EXCEPT ![Key(index)] = CopyTree(config[index], @)]
                           ELSE backup
              /\ target' = [target EXCEPT ![index].backup_failed = ~copied]
    /\ pc' = "clean"
    /\ UNCHANGED <<release_info, cli_zip_pattern, gui_keyword, zip_dir, local_files,
                   downloaded_files, fetch, cli_zip, gui_zip, need_extract_deps, index,
                   all_success, config, run, fn, temp_folder,
                   github_full_download_enabled, m9a_folders>>

\* AfterInstall with restore_config never called
AfterInstall_SkipRestore == IF need_extract_deps THEN "deps" ELSE "ok"

\* AfterInstall with restore_config called whatever backup_config returned
AfterInstall_AlwaysRestore == "restore"

\* lines 1124-1135 after a step of the loop body succeeded: the next step that is
\* due, or the folder is done
AfterInstall == IF config_backup_successful THEN "restore"
                ELSE IF need_extract_deps THEN "deps" ELSE "ok"
AfterRestore == IF need_extract_deps THEN "deps" ELSE "ok"

Fail(step) ==
    /\ NextTarget(step)
    /\ all_success' = FALSE

\* temp_folder is an entry of the folder m9a_path, or lies below one
Inside(m9a_path) ==
    /\ Len(temp_folder) >= 2
    /\ temp_folder[1] = m9a_path
    /\ temp_folder[2] = "\\"

\* clean_m9a_folder and lines 1113-1116: every entry of the folder is deleted (a
\* missing folder is created), the staging folder with it when it is one of them;
\* a failure may leave any part of the folder behind
CleanM9AFolder ==
    /\ pc = "clean"
    /\ \E cleaned \in BOOLEAN :
         /\ IF cleaned
            THEN /\ config' = [config EXCEPT ![index] = AbsentDir]
                 /\ target' = [target EXCEPT ![index].wiped = TRUE]
                 /\ pc' = "extract"
                 /\ UNCHANGED <<index, all_success>>
            ELSE /\ \E left \in {config[index], AbsentDir} :
                       config' = [config EXCEPT ![index] = left]
                 /\ Fail("clean")
         /\ \E staging_deleted \in IF Inside(m9a_folders[index]) THEN {TRUE, cleaned}
                                                                 ELSE {FALSE} :
              IF staging_deleted
              THEN /\ temp_exists' = FALSE
                   /\ zip_dir' = <<>>
                   /\ local_files' = SelectSeq(local_files, LAMBDA l : l.dir # "temp")
                   /\ backup' = [k \in BackupKeys |-> AbsentDir]
              ELSE UNCHANGED <<zip_dir, local_files, backup, temp_exists>>
    /\ UNCHANGED <<release_info, cli_zip_pattern, gui_keyword,
                   downloaded_files, fetch, cli_zip, gui_zip, need_extract_deps,
                   config_backup_successful, run, fn, temp_folder,
                   github_full_download_enabled, m9a_folders>>

\* what extract_zip_with_progress does with the file at zip_path: "False" for a
\* missing or unreadable archive, "Raise" when the progress line divides by a total
\* size of zero (line 362), else the outcome of the extraction
ExtractOutcomes(file) ==
    IF file = NoFile \/ ~file.valid THEN {"False"}
    ELSE IF file.size = 0 THEN {"Raise"}
    ELSE {"True", "False"}

\* extract_zip_with_progress and lines 1118-1121
ExtractZip ==
    /\ pc = "extract"
    /\ \E outcome \in ExtractOutcomes(FileAt(cli_zip)) :
         CASE outcome = "True" ->
                /\ config' = [config EXCEPT ![index] =
                                 IF FileAt(cli_zip).config THEN ArtifactConfig ELSE @]
                /\ IF AfterInstall = "ok"
                   THEN /\ target' = [target EXCEPT ![index].installed = cli_zip,
                                                    ![index].result = "ok"]
                        /\ index' = index + 1
                        /\ pc' = IF index < Len(m9a_folders) THEN "backup" ELSE "cleanup"
                   ELSE /\ target' = [target EXCEPT ![index].installed = cli_zip]
                        /\ pc' = AfterInstall
                        /\ UNCHANGED index
                /\ UNCHANGED <<all_success, run>>
           [] outcome = "False" ->
                /\ Fail("extract")
                /\ UNCHANGED <<config, run>>
           [] OTHER ->
                /\ Raise
                /\ UNCHANGED <<config, target, index, all_success>>
    /\ UNCHANGED <<release_info, cli_zip_pattern, gui_keyword, zip_dir, local_files,
                   downloaded_files, fetch, cli_zip, gui_zip, need_extract_deps,
                   config_backup_successful, backup, temp_exists, fn, temp_folder,
                   github_full_download_enabled, m9a_folders>>

\* restore_config and lines 1124-1128
RestoreConfig ==
    /\ pc = "restore"
    /\ \E copied \in (IF temp_exists /\ backup[Key(index)] # AbsentDir
                      THEN BOOLEAN ELSE {FALSE}) :
         IF copied
         THEN /\ config' = [config EXCEPT ![index] = CopyTree(backup[Key(index)], @)]
              /\ IF AfterRestore = "ok"
                 THEN /\ target' = [target EXCEPT ![index].restored = TRUE,
                                                  ![index].result = "ok"]
                      /\ index' = index + 1
                      /\ pc' = IF index < Len(m9a_folders) THEN "backup" ELSE "cleanup"
                 ELSE /\ target' = [target EXCEPT ![index].restored = TRUE]
                      /\ pc' = AfterRestore
                      /\ UNCHANGED index
              /\ UNCHANGED all_success
         ELSE /\ Fail("restore")
              /\ UNCHANGED config
    /\ UNCHANGED <<release_info, cli_zip_pattern, gui_keyword, zip_dir, local_files,
                   downloaded_files, fetch, cli_zip, gui_zip, need_extract_deps,
                   config_backup_successful, backup, temp_exists, run, fn, temp_folder,
                   github_full_download_enabled, m9a_folders>>

\* lines 968-985: the archive extract_deps_from_full_zip reads: the one at
\* full_zip_path when it exists, else the first local archive matching
\* self.gui_zip_pattern
GuiZipFile ==
    IF FileAt(gui_zip) # NoFile THEN FileAt(gui_zip)
    ELSE LET gui_zip_pattern == ZipPattern(parse_release_keywords(release_info).gui_keywords[1])
             seen(l) == /\ l.dir = "temp" => temp_exists
                        /\ GlobZip(l.name)
                        /\ ReMatchDigits(gui_zip_pattern, l.name)
             gui_zip_files == SelectSeq(local_files, seen)
         IN  IF gui_zip_files = <<>> THEN NoFile ELSE gui_zip_files[1].file

\* DepsOutcomes with an archive without deps/ entries taken as nothing to extract
DepsOutcomes_NothingToDo(file) ==
    IF file = NoFile \/ ~file.valid THEN {"False"}
    ELSE IF ~file.deps THEN {"True"}
    ELSE IF file.deps_size = 0 THEN {"Raise"}
    ELSE {"True", "False"}

\* lines 989-1021: "False" without an archive, for an unreadable one and for one
\* without deps/ entries, "Raise" when the deps/ entries total zero bytes (line 1009)
DepsOutcomes(file) ==
    IF file = NoFile \/ ~file.valid \/ ~file.deps THEN {"False"}
    ELSE IF file.deps_size = 0 THEN {"Raise"}
    ELSE {"True", "False"}

\* extract_deps_from_full_zip and lines 1131-1137
ExtractDeps ==
    /\ pc = "deps"
    /\ \E outcome \in DepsOutcomes(GuiZipFile) :
         CASE outcome = "True" ->
                /\ target' = [target EXCEPT ![index].deps = gui_zip, ![index].result = "ok"]
                /\ index' = index + 1
                /\ pc' = IF index < Len(m9a_folders) THEN "backup" ELSE "cleanup"
                /\ UNCHANGED <<all_success, run>>
           [] outcome = "False" ->
                /\ Fail("deps")
                /\ UNCHANGED run
           [] OTHER ->
                /\ Raise
                /\ UNCHANGED <<target, index, all_success>>
    /\ UNCHANGED <<release_info, cli_zip_pattern, gui_keyword, zip_dir, local_files,
                   downloaded_files, fetch, cli_zip, gui_zip, need_extract_deps,
                   config_backup_successful, config, backup, temp_exists, fn, temp_folder,
                   github_full_download_enabled, m9a_folders>>

\* clean_temp_folder and lines 1140-1141: temp_folder is removed with the archives
\* and the backups in it; a failure is logged and nothing else
CleanTempFolder ==
    /\ pc = "cleanup"
    /\ \E removed \in (IF temp_exists THEN BOOLEAN ELSE {FALSE}) :
         IF removed
         THEN /\ temp_exists' = FALSE
              /\ zip_dir' = <<>>
              /\ backup' = [k \in BackupKeys |-> AbsentDir]
              /\ local_files' = SelectSeq(local_files, LAMBDA l : l.dir # "temp")
              /\ run' = [run EXCEPT !.cleanup = "ok"]
         ELSE /\ run' = [run EXCEPT !.cleanup = "failed"]
              /\ UNCHANGED <<temp_exists, zip_dir, backup, local_files>>
    /\ pc' = "prune"
    /\ UNCHANGED <<release_info, cli_zip_pattern, gui_keyword, downloaded_files, fetch,
                   cli_zip, gui_zip, need_extract_deps, index, config_backup_successful,
                   all_success, config, target, fn, temp_folder,
                   github_full_download_enabled, m9a_folders>>

\* log_max_files of the configuration
log_max_files == 2

\* CleanupOldLogs with the outcome of the cleanup folded into the value returned
CleanupOldLogs_CleanupCounts ==
    /\ pc = "prune"
    /\ \E log_files \in 0..(log_max_files + 1), unlinked \in BOOLEAN :
         run' = [run EXCEPT !.pruned = IF log_files <= log_max_files THEN "kept"
                                       ELSE IF unlinked THEN "deleted" ELSE "failed",
                            !.ret = IF all_success /\ run.cleanup = "ok"
                                    THEN "True" ELSE "False"]
    /\ pc' = "done"
    /\ UNCHANGED <<release_info, cli_zip_pattern, gui_keyword, zip_dir, local_files,
                   downloaded_files, fetch, cli_zip, gui_zip, need_extract_deps, index,
                   config_backup_successful, all_success, config, backup, temp_exists,
                   target, fn, temp_folder,
                   github_full_download_enabled, m9a_folders>>

\* _cleanup_old_logs and lines 1143-1150: with more than log_max_files logs the
\* oldest are unlinked, an unlink that fails is logged; then all_success is returned
CleanupOldLogs ==
    /\ pc = "prune"
    /\ \E log_files \in 0..(log_max_files + 1), unlinked \in BOOLEAN :
         run' = [run EXCEPT !.pruned = IF log_files <= log_max_files THEN "kept"
                                       ELSE IF unlinked THEN "deleted" ELSE "failed",
                            !.ret = IF all_success THEN "True" ELSE "False"]
    /\ pc' = "done"
    /\ UNCHANGED <<release_info, cli_zip_pattern, gui_keyword, zip_dir, local_files,
                   downloaded_files, fetch, cli_zip, gui_zip, need_extract_deps, index,
                   config_backup_successful, all_success, config, backup, temp_exists,
                   target, fn, temp_folder,
                   github_full_download_enabled, m9a_folders>>

Next ==
    \/ ResolveRelease
    \/ CheckCliCache
    \/ CheckGuiCache
    \/ DownloadAttempt
    \/ VerifyDownload
    \/ CheckNeedGui
    \/ UseDownloadResult
    \/ FindLiteZip
    \/ DecideDeps
    \/ BackupConfig
    \/ CleanM9AFolder
    \/ ExtractZip
    \/ RestoreConfig
    \/ ExtractDeps
    \/ CleanTempFolder
    \/ CleanupOldLogs

Spec == Init /\ [][Next]_vars

----------------------------------------------------------------------------
(* download_file_with_progress on its own: every call the run can make, from the
   call to the return.  The loop is the only thing that runs, so it is taken
   whenever it can be. *)

InitDownload ==
    /\ m9a_folders = DefaultFolders
    /\ \E role \in {"cli", "gui"}, z \in InitZipDirs :
         \E info \in {r \in RunReleases : RoleUrl(role, r) # NoUrl} :
           InitRun(role \o "_download", info, z, <<>>, [NoFetch EXCEPT !.role = role],
                   {UserConfig}, {AbsentDir})
    /\ github_full_download_enabled = TRUE /\ temp_folder = DefaultTemp

SpecDownload == InitDownload /\ [][DownloadAttempt]_vars /\ WF_vars(DownloadAttempt)

----------------------------------------------------------------------------
(* The resolution of the full-variant asset on its own (lines 741-774), for
   every release of a bounded family *)

SelectKeywords == {"Full", "Gamma", "Lite"}

SelectBodies ==
    { <<>>,
      <<MapLine("Beta", CmdLineLabel)>>,
      <<MapLine("Gamma", GuiLabel)>>,
      <<MapLine("Gamma", GuiLabel), MapLine("Lite", GuiLabel)>>,
      <<MapLine("Alpha", CmdLineLabel), MapLine("Gamma", GuiLabel), MapLine("Gamma", GuiLabel)>> }

\* asset lists of up to MaxAssets assets with different names
SelectAssets ==
    UNION { { [i \in 1..n |-> Asset(AssetName("1", kw[i]), size[i], NoDigest)] :
                kw \in {k \in [1..n -> SelectKeywords] :
                           \A i, j \in 1..n : i # j => k[i] # k[j]},
                size \in [1..n -> 1..MaxAssets] } :
            n \in 1..MaxAssets }

Orders(n) == {q \in [1..n -> 1..n] : \A i, j \in 1..n : i # j => q[i] # q[j]}

InitSelect ==
    /\ \E body \in SelectBodies, assets \in SelectAssets :
         fn = [op |-> "select", stage |-> "input", info |-> Release(TagV1, body, assets),
               first |-> NoUrl, again |-> NoUrl]
    /\ pc = "idle" /\ release_info = NoRelease /\ cli_zip_pattern = <<>>
    /\ gui_keyword = <<>> /\ zip_dir = <<>> /\ local_files = <<>>
    /\ downloaded_files = <<>> /\ fetch = NoFetch /\ cli_zip = NoPath /\ gui_zip = NoPath
    /\ need_extract_deps = TRUE /\ index = 0 /\ config_backup_successful = FALSE
    /\ all_success = TRUE /\ config = [i \in 1..NumTargets |-> AbsentDir]
    /\ backup = [k \in BackupKeys |-> AbsentDir] /\ temp_exists = TRUE
    /\ target = [i \in 1..NumTargets |-> NoTarget] /\ run = NoRun
    /\ github_full_download_enabled = TRUE /\ temp_folder = DefaultTemp
    /\ m9a_folders = DefaultFolders

runVars == <<pc, release_info, cli_zip_pattern, gui_keyword, zip_dir, local_files,
             downloaded_files, fetch, cli_zip, gui_zip, need_extract_deps, index,
             config_backup_successful, all_success, config, backup, temp_exists,
             target, run, github_full_download_enabled,
          temp_folder, m9a_folders>>

\* the full-variant asset is resolved for the release as fetched
SelectFull ==
    /\ fn.op = "select" /\ fn.stage = "input"
    /\ fn' = [fn EXCEPT !.stage = "selected", !.first = gui_url(fn.info)]
    /\ UNCHANGED runVars

\* the same release with its assets listed in another order is resolved again
SelectReordered ==
    /\ fn.op = "select" /\ fn.stage = "selected"
    /\ \E q \in Orders(Len(fn.info.assets)) :
         LET assets == [i \in 1..Len(fn.info.assets) |-> fn.info.assets[q[i]]]
             info == [fn.info EXCEPT !.assets = assets]
         IN  fn' = [fn EXCEPT !.stage = "reordered", !.info = info, !.again = gui_url(info)]
    /\ UNCHANGED runVars

SpecSelect == InitSelect /\ [][SelectFull \/ SelectReordered]_vars

----------------------------------------------------------------------------
(* _verify_zip_integrity on its own, for every file and release of a bounded
   family: the asset's digest field and the release body each publish a digest
   in some spelling, or none *)

VerifyDigests ==
    {NoDigest, NullDigest, <<"sha256:">>}
      \cup {<<p>> \o HexOf(c) : p \in {"sha256:", "SHA256:"}, c \in {"a", "A", "b"}}

VerifyBodies ==
    {<<>>} \cup {<<HashLine(LiteName, t, HexOf(c))>> :
                    t \in {"sha256", "SHA256"}, c \in {"a", "A", "b"}}

VerifyFiles ==
    {Archive(v, HexOf(c), FALSE, FALSE, 10, 0) : v \in BOOLEAN, c \in {"a", "b"}}

InitVerify ==
    /\ \E file \in VerifyFiles, digest \in VerifyDigests, body \in VerifyBodies :
         fn = [op |-> "verify", file |-> file, zip_filename |-> LiteName,
               info |-> Release(TagV1, body, <<Asset(LiteName, 10, digest)>>),
               result |-> "none"]
    /\ pc = "idle" /\ release_info = NoRelease /\ cli_zip_pattern = <<>>
    /\ gui_keyword = <<>> /\ zip_dir = <<>> /\ local_files = <<>>
    /\ downloaded_files = <<>> /\ fetch = NoFetch /\ cli_zip = NoPath /\ gui_zip = NoPath
    /\ need_extract_deps = TRUE /\ index = 0 /\ config_backup_successful = FALSE
    /\ all_success = TRUE /\ config = [i \in 1..NumTargets |-> AbsentDir]
    /\ backup = [k \in BackupKeys |-> AbsentDir] /\ temp_exists = TRUE
    /\ target = [i \in 1..NumTargets |-> NoTarget] /\ run = NoRun
    /\ github_full_download_enabled = TRUE /\ temp_folder = DefaultTemp
    /\ m9a_folders = DefaultFolders

VerifyZip ==
    /\ fn.op = "verify" /\ fn.result = "none"
    /\ fn' = [fn EXCEPT !.result = verify_zip_integrity(fn.file, fn.info, fn.zip_filename)]
    /\ UNCHANGED runVars

SpecVerify == InitVerify /\ [][VerifyZip]_vars

----------------------------------------------------------------------------
(* parse_release_keywords on its own, for every release body of up to MaxLines
   lines: mappings of either role with one of two tokens, and other text *)

MaxLines == 3

ParseLines ==
    {MapLine(t, l) : t \in {"Alpha", "Beta"}, l \in {CmdLineLabel, GuiLabel}}
      \cup {HashLine(LiteName, "sha256", HexOf("a"))}

ParseBodies == UNION {[1..n -> ParseLines] : n \in 0..MaxLines}

InitParse ==
    /\ \E body \in ParseBodies :
         fn = [op |-> "parse", info |-> Release(TagV1, body, <<>>),
               result |-> [cli |-> "", gui |-> "", gui_keywords |-> <<>>]]
    /\ pc = "idle" /\ release_info = NoRelease /\ cli_zip_pattern = <<>>
    /\ gui_keyword = <<>> /\ zip_dir = <<>> /\ local_files = <<>>
    /\ downloaded_files = <<>> /\ fetch = NoFetch /\ cli_zip = NoPath /\ gui_zip = NoPath
    /\ need_extract_deps = TRUE /\ index = 0 /\ config_backup_successful = FALSE
    /\ all_success = TRUE /\ config = [i \in 1..NumTargets |-> AbsentDir]
    /\ backup = [k \in BackupKeys |-> AbsentDir] /\ temp_exists = TRUE
    /\ target = [i \in 1..NumTargets |-> NoTarget] /\ run = NoRun
    /\ github_full_download_enabled = TRUE /\ temp_folder = DefaultTemp
    /\ m9a_folders = DefaultFolders

ParseKeywords ==
    /\ fn.op = "parse" /\ fn.result.cli = ""
    /\ fn' = [fn EXCEPT !.result = parse_release_keywords(fn.info)]
    /\ UNCHANGED runVars

SpecParse == InitParse /\ [][ParseKeywords]_vars

----------------------------------------------------------------------------
(* main: the configuration is validated, run_update is called and its result is
   turned into the exit code of the process.  Ctrl+C can arrive at any point. *)

\* everything but the position of the process and its exit
mainVars == <<release_info, cli_zip_pattern, gui_keyword, zip_dir, local_files,
              downloaded_files, fetch, cli_zip, gui_zip, need_extract_deps, index,
              config_backup_successful, all_success, config, backup, temp_exists,
              target, run, github_full_download_enabled,
          temp_folder, m9a_folders>>

\* the fields of the configuration validate_config looks at
Configurations ==
    [m9a_folders : {<<>>, m9a_folders}, temp_ok : BOOLEAN,
     github_repo : {"", "MAA1999/M9A"},
     github_release_version : {"release", "latest", "nightly"}]

validate_config(cfg) ==
    /\ cfg.m9a_folders # <<>>
    /\ cfg.temp_ok
    /\ cfg.github_repo # ""
    /\ cfg.github_release_version \in {"release", "latest"}

InitMain == InitEnv("main")

\* sys.exit(code), or the exit of the interpreter on an exception nothing caught
Exit(code, why) ==
    /\ pc' = "exited"
    /\ fn' = [op |-> "exit", code |-> code, why |-> why]

\* lines 1160-1162
ValidateConfig ==
    /\ pc = "main"
    /\ \E cfg \in Configurations :
         IF validate_config(cfg)
         THEN pc' = "start" /\ UNCHANGED fn
         ELSE Exit(1, "config")
    /\ UNCHANGED mainVars

\* line 1165: sys.exit(0 if success else 1)
SysExit ==
    /\ pc = "done"
    /\ Exit(IF run.ret = "True" THEN 0 ELSE 1, "returned")
    /\ UNCHANGED mainVars

\* lines 1170-1173: the exception is logged and raised again, the interpreter
\* prints the traceback and exits with 1
Reraise ==
    /\ pc = "raised"
    /\ Exit(1, "exception")
    /\ UNCHANGED mainVars

\* lines 1166-1169: Ctrl+C at any point before the exit
KeyboardInterrupt ==
    /\ pc \notin {"exited", "idle"}
    /\ Exit(0, "interrupt")
    /\ UNCHANGED mainVars

NextMain ==
    \/ ValidateConfig
    \/ Next
    \/ SysExit
    \/ Reraise
    \/ KeyboardInterrupt

SpecMain == InitMain /\ [][NextMain]_vars

----------------------------------------------------------------------------
(* Properties *)

Folders == 1..NumTargets
Ended == pc \in {"done", "raised"}

\* the steps of the loop body that a folder has had, from what the run recorded
Wiping(i) == target[i].wiped \/ target[i].result = "clean"
Installing(i) == target[i].installed # NoPath \/ target[i].result = "extract"
Restoring(i) == target[i].restored \/ target[i].result = "restore"
Extracting(i) == target[i].deps # NoPath \/ target[i].result = "deps"
Attempted(i) == target[i].result # "none"

\* no step of the loop body has touched any folder
Untouched ==
    /\ index = 0
    /\ \A i \in Folders : target[i] = [NoTarget EXCEPT !.config0 = config[i]]

\* C1: when the wipe (clean_m9a_folder) fails on a folder, every later folder is
\* still attempted, run_update returns False, and every other folder that
\* succeeded was installed.
C1_WipeFailureIsolated ==
    \A i \in Folders :
        (Ended /\ target[i].result = "clean") =>
            /\ pc = "done"
            /\ run.ret = "False"
            /\ \A j \in Folders : j > i => Attempted(j)
            /\ \A j \in Folders : target[j].result = "ok" => target[j].installed # NoPath

\* C2: a folder that had a config subtree, was installed from an archive without
\* config entries and had its config restored holds exactly the config it had
\* before.
C2_ConfigRoundTrip ==
    \A i \in Folders :
        ( /\ target[i].config0 # AbsentDir
          /\ target[i].restored
          /\ FileAt(target[i].installed) # NoFile
          /\ ~FileAt(target[i].installed).config )
        => config[i] = target[i].config0

\* the digest a release publishes for fn.zip_filename: the asset's digest field
\* when it reads sha256:<hex>, else the hex of the body line naming the asset
C3_Published ==
    LET digest == fn.info.assets[1].digest
    IN  IF digest # NoDigest /\ digest[1] = "sha256:" THEN Tail(digest)
        ELSE IF digest = NoDigest /\ fn.info.body # <<>> THEN fn.info.body[1].hex
        ELSE <<>>

\* C3: for a valid archive and a release publishing a digest for the asset,
\* _verify_zip_integrity is true exactly when the file's SHA-256 equals the
\* published digest, whatever the letter case of the published digest.
C3_VerifyIffDigestEqual ==
    ( /\ fn.op = "verify" /\ fn.result # "none"
      /\ fn.file.valid
      /\ C3_Published # <<>> )
    => ((fn.result = "True") <=> (calculate_sha256(fn.file) = Lower(C3_Published)))

\* C4: for each role, when temp_folder/ZIP holds the file a fetch writes for the
\* resolved asset and that file passes verification, no download is attempted for
\* that role.
C4_CachedArtifactNotFetched ==
    \A role \in {"cli", "gui"} : role \in run.cached => role \notin run.fetched

\* the tokens the release body maps to the full variant, or the default one
C5_Tokens ==
    LET body == fn.info.body
        mapped == {body[i].token : i \in {j \in 1..Len(body) :
                       body[j].kind = "map" /\ body[j].label = GuiLabel}}
    IN  IF mapped = {} THEN {"Full"} ELSE mapped

C5_Candidates ==
    {a \in Range(fn.info.assets) :
        \E t \in C5_Tokens, ver \in VersionTokens : a.name = AssetName(ver, t)}

\* C5: among the assets matching any full-variant token, the one selected has the
\* smallest size; with distinct sizes, listing the assets in another order selects
\* the same asset.
C5_SmallestFullAsset ==
    (fn.op = "select" /\ fn.stage # "input" /\ C5_Candidates # {}) =>
        /\ \E a \in C5_Candidates :
              /\ fn.first = a.browser_download_url
              /\ \A b \in C5_Candidates : a.size <= b.size
        /\ ( /\ fn.stage = "reordered"
             /\ \A a, b \in C5_Candidates : a # b => a.size # b.size )
           => fn.again = fn.first

\* the first asset listed is a candidate but not the smallest, and the order of the
\* assets was changed
C5_Witness ==
    /\ fn.op = "select" /\ fn.stage = "reordered"
    /\ Cardinality(C5_Candidates) >= 2
    /\ \A a, b \in C5_Candidates : a # b => a.size # b.size
    /\ fn.info.assets[1] \in C5_Candidates
    /\ fn.info.assets[1].browser_download_url # fn.first
    /\ fn.again = fn.first

OnLocalZip == cli_zip # NoPath /\ cli_zip.dir \in {"temp", "cwd"}

C10_StepFailureStopsTarget ==
    \A i \in Folders :
        /\ target[i].backup_failed =>
              /\ ~Wiping(i) /\ ~Installing(i) /\ ~Restoring(i) /\ ~Extracting(i)
              /\ target[i].result # "ok"
              /\ pc = "done" => run.ret = "False"
        /\ target[i].result = "clean" =>
              ~Installing(i) /\ ~Restoring(i) /\ ~Extracting(i)
        /\ target[i].result = "extract" => ~Restoring(i) /\ ~Extracting(i)
        /\ target[i].result = "restore" => ~Extracting(i)
        /\ (target[i].result \in {"clean", "extract", "restore", "deps"} /\ pc = "done")
              => run.ret = "False"

\* C11: whenever run_update reached the loop over the folders, clean_temp_folder
\* has been attempted by the time run_update ends, whatever the folders' outcomes,
\* and it is attempted only when every folder has had its last step.
C11_CleanupAfterLastTarget ==
    /\ (Ended /\ index > 0) => run.cleanup # "none"
    /\ run.cleanup # "none" => (index > NumTargets /\ \A i \in Folders : Attempted(i))
    /\ pc = "cleanup" => run.cleanup = "none"

\* C12: the exit code is 0 when run_update returned True, non-zero when the
\* configuration is invalid or run_update returned False (resolution, download or
\* a folder failed), and Ctrl+C gives a code that is neither the code of success
\* nor the code of failure.
C12_ExitCodes ==
    pc = "exited" =>
        /\ (fn.why = "returned" /\ run.ret = "True") => fn.code = 0
        /\ (fn.why = "returned" /\ run.ret = "False") => fn.code # 0
        /\ fn.why = "config" => fn.code # 0
        /\ fn.why = "interrupt" => fn.code \notin {0, 1}

\* C13: _verify_zip_integrity returns False for every file that does not open as
\* an archive, whether a digest is published or not and whether it equals the
\* file's SHA-256 or not; the digest is not looked up for such a file (a null
\* digest field, on which the lookup raises, makes no difference).
C13_InvalidArchiveRejected ==
    (fn.op = "verify" /\ fn.result # "none" /\ ~fn.file.valid) => fn.result = "False"

\* an invalid file whose SHA-256 is the digest the asset publishes, and an invalid
\* file checked against a null digest field
C13_Witness ==
    /\ fn.op = "verify" /\ fn.result = "False" /\ ~fn.file.valid
    /\ fn.info.assets[1].digest \in {<<"sha256:">> \o calculate_sha256(fn.file), NullDigest}

\* C14: when neither the asset's digest field (absent or null) nor the release
\* body publishes a digest for the asset, _verify_zip_integrity returns True for
\* every archive that opens.
C14_NoDigestAcceptsValid ==
    ( /\ fn.op = "verify" /\ fn.result # "none"
      /\ fn.file.valid
      /\ fn.info.assets[1].digest \in {NoDigest, NullDigest}
      /\ fn.info.body = <<>> )
    => fn.result = "True"

\* download_latest_release is past the role's download with its result in hand
Obtained == pc \in {"check_deps", "gui_cache", "gui_download", "result"}

C16_Mappings(label) ==
    {i \in 1..Len(fn.info.body) :
        fn.info.body[i].kind = "map" /\ fn.info.body[i].label = label}

\* the token of the mapping after which the body has no mapping of the role
C16_LastToken(label, default) ==
    IF C16_Mappings(label) = {} THEN default
    ELSE LET last == CHOOSE i \in C16_Mappings(label) :
                         \A j \in C16_Mappings(label) : j <= i
         IN  fn.info.body[last].token

\* C16: the token parse_release_keywords resolves for the minimal role is that of
\* the last mapping to the command-line label in the body, however many there
\* are, and Lite when the body is empty or has none; likewise for the full role
\* with the default Full.
C16_LastMappingWins ==
    (fn.op = "parse" /\ fn.result.cli # "") =>
        /\ fn.result.cli = C16_LastToken(CmdLineLabel, "Lite")
        /\ fn.result.gui = C16_LastToken(GuiLabel, "Full")

\* three mappings of the minimal role, the last with another token than the first
C16_Witness ==
    /\ fn.op = "parse" /\ fn.result.cli = "Beta"
    /\ Cardinality(C16_Mappings(CmdLineLabel)) = 3
    /\ fn.info.body[1].token = "Alpha"

\* the minimal artifact came from the release and the release has no asset of the
\* full role
C17_Case ==
    /\ release_info # NoRelease
    /\ gui_url(release_info) = NoUrl
    /\ cli_zip # NoPath /\ cli_zip.dir = "ZIP"

\* C17: when the minimal artifact was obtained and verified and no asset matches
\* the full role, the run is not aborted: every folder is attempted, dependency
\* extraction is skipped on every folder, and run_update returns.
C17_NoFullAssetNotFatal ==
    C17_Case =>
        /\ gui_zip = NoPath
        /\ pc \notin {"result", "find_lite", "decide"} => ~need_extract_deps
        /\ \A i \in Folders : ~Extracting(i)
        /\ Ended => (pc = "done" /\ \A i \in Folders : Attempted(i))

\* the full artifact was looked up in temp_folder/ZIP or a download of it started
C18_FullFetched ==
    \/ pc \in {"gui_cache", "gui_download"}
    \/ "gui" \in run.looked \cup run.fetched
    \/ run.calls["gui"] > 0

\* C18: the full artifact is neither looked up in the cache nor downloaded when
\* the minimal artifact has an entry under deps/ or when full_download_enabled is
\* off; the minimal artifact inspected is the one that passed verification.
C18_FullOnlyWhenDepsMissing ==
    C18_FullFetched =>
        /\ github_full_download_enabled
        /\ downloaded_files # <<>>
        /\ FileAt(downloaded_files[1]) # NoFile =>
              /\ ~FileAt(downloaded_files[1]).deps
              /\ verify_zip_integrity(FileAt(downloaded_files[1]), release_info,
                                      downloaded_files[1].name) = "True"

\* the release has a full asset and the download is allowed, the verified minimal
\* archive has entries under deps/, and download_latest_release is at its return
\* without a lookup of the full artifact
C18_Witness ==
    /\ pc = "result" /\ github_full_download_enabled
    /\ gui_url(release_info) # NoUrl
    /\ FileAt(downloaded_files[1]).deps
    /\ ~C18_FullFetched

\* run_update is inside the loop over the folders
InLoop == pc \in {"backup", "clean", "extract", "restore", "deps"}

\* the minimal artifact of the run: the verified one download_latest_release
\* returned first, or the local archive of the fallback
C19_Minimal == IF run.abort = "none" THEN downloaded_files[1] ELSE cli_zip

\* download_latest_release returned a full artifact
C19_FullObtained == run.abort = "none" /\ Len(downloaded_files) = 2

\* C19: the decision on dependency extraction is the same for all folders: skip
\* when the minimal artifact has entries under deps/ or no full artifact was
\* obtained; otherwise every folder that completes backup, wipe, install and
\* restore runs the extraction, and a folder that failed an earlier step never
\* runs it.
C19_DepsDecision ==
    InLoop =>
        /\ need_extract_deps =
              (~check_lite_zip_has_deps(FileAt(C19_Minimal)) /\ C19_FullObtained)
        /\ \A i \in Folders :
              /\ target[i].result = "ok" => (need_extract_deps <=> target[i].deps # NoPath)
              /\ target[i].result \in {"clean", "extract", "restore"} => ~Extracting(i)

\* dependency extraction has run on folder i, and the full artifact it read is an
\* archive that opens and has no entry under deps/
C20_Case(i) ==
    /\ need_extract_deps /\ target[i].result \in {"ok", "deps"}
    /\ gui_zip # NoPath /\ FileAt(gui_zip) # NoFile
    /\ FileAt(gui_zip).valid /\ ~FileAt(gui_zip).deps

\* C20: when dependency extraction runs on a folder and the full artifact has no
\* entry under deps/, extract_deps_from_full_zip returns False, nothing is
\* extracted into the folder, the folder is failed and run_update returns False,
\* and the folders after it are still attempted.
C20_MissingDepsFailsTarget ==
    \A i \in Folders :
        C20_Case(i) =>
            /\ target[i].result = "deps"
            /\ target[i].deps = NoPath
            /\ ~all_success
            /\ index > i
            /\ pc # "raised"
            /\ pc = "done" => (run.ret = "False" /\ \A j \in Folders : Attempted(j))

\* the first folder failed at the dependency extraction for want of deps/ entries,
\* a later folder was attempted and installed, and run_update returned False
C20_Witness ==
    /\ C20_Case(1) /\ target[1].result = "deps"
    /\ target[NumTargets].installed # NoPath
    /\ pc = "done" /\ run.ret = "False"

----------------------------------------------------------------------------
(* Backup keys, the retry loop on write failures, folders without a config *)

\* the files of folder i's config tree that were in folder j's config tree when the run
\* started and not in folder i's own
Foreign(i, j) ==
    IF config[i] = AbsentDir \/ target[j].config0 = AbsentDir THEN {}
    ELSE {f \in DOMAIN config[i] \cap DOMAIN target[j].config0 :
            /\ config[i][f] = target[j].config0[f]
            /\ target[i].config0 # AbsentDir => f \notin DOMAIN target[i].config0}

\* backup_config has copied folder i's config tree into the staging folder
BackedUp(i) ==
    /\ target[i].config0 # AbsentDir
    /\ ~target[i].backup_failed
    /\ index > i \/ (index = i /\ pc # "backup")

\* C21 as claimed: within one run the config backups of two distinct folders are
\* never stored under the same key of the staging folder, and the config restored to
\* a folder never contains a file that came from another folder's config.
C21_BackupsApart ==
    /\ \A i \in Folders, j \in Folders :
         (i # j /\ BackedUp(i) /\ BackedUp(j)) => Key(i) # Key(j)
    /\ \A i \in Folders, j \in Folders :
         (i # j /\ target[i].restored) => Foreign(i, j) = {}

\* a pass of the loop that wrote to the destination file and did not succeed
C22_WriteFailure ==
    /\ fetch.ret = "none"
    /\ zip_dir' # zip_dir
    /\ fetch'.ret # "True"

C23_NoConfigNoRestore ==
    \A i \in Folders :
        /\ Restoring(i) => BackedUp(i)
        /\ (target[i].config0 = AbsentDir /\ Attempted(i)) =>
              /\ Wiping(i)
              /\ target[i].wiped => Installing(i)
              /\ ~Restoring(i)

\* a folder without a config subtree was wiped and installed and succeeded
C23_Witness ==
    \E i \in Folders :
        /\ target[i].config0 = AbsentDir
        /\ target[i].result = "ok"
        /\ target[i].wiped /\ target[i].installed # NoPath /\ ~target[i].restored

----------------------------------------------------------------------------
(* The order of the steps *)

\* C24: on every folder the steps run in the order backup, wipe, install, restore,
\* dependency extraction: the wipe starts only after backup_config returned, the
\* install only after the wipe succeeded, the restore only after the install
\* succeeded, the dependency extraction only after the restore succeeded or was
\* skipped; the folders are processed one at a time in configuration order and no
\* step of a folder starts before the folder before it has finished or failed.
C24_StepOrder ==
    /\ [](\A i \in Folders :
            /\ Wiping(i) => (index > i \/ (index = i /\ pc # "backup"))
            /\ Installing(i) => target[i].wiped
            /\ Restoring(i) => target[i].installed # NoPath
            /\ Extracting(i) =>
                  /\ target[i].installed # NoPath
                  /\ target[i].restored \/ ~BackedUp(i)
            /\ i > index => target[i] = [NoTarget EXCEPT !.config0 = target[i].config0]
            /\ i < index => Attempted(i))
    /\ [][/\ index' # index => index' = index + 1
          /\ \A i \in Folders :
               (target'[i] # target[i] \/ config'[i] # config[i]) => i = index
          /\ pc' # pc =>
               /\ pc' = "backup" => pc \in {"decide", "clean", "extract", "restore", "deps"}
               /\ pc' = "clean" => pc = "backup"
               /\ pc' = "extract" => pc = "clean"
               /\ pc' = "restore" => pc = "extract"
               /\ pc' = "deps" => pc \in {"extract", "restore"}]_vars

\* the first folder had all five steps and the second folder's backup is due
C24_Witness ==
    /\ target[1].result = "ok" /\ BackedUp(1)
    /\ target[1].wiped /\ target[1].installed # NoPath
    /\ target[1].restored /\ target[1].deps # NoPath
    /\ index = 2 /\ pc = "backup"

----------------------------------------------------------------------------
(* The digest lookup *)

\* the digest field of the asset verified, and the hash the release body lists
C25_Digest == fn.info.assets[1].digest
C25_Prefixed == StartsWith(C25_Digest, <<"sha256:">>)
C25_Verified == fn.op = "verify" /\ fn.result # "none" /\ fn.file.valid

\* C25: the digest lookup gives precedence to the asset record: when the asset of
\* that name carries a digest prefixed with sha256:, the text after the prefix is
\* what the file's hash is compared with, whatever hash the release body lists for
\* the name; the body is scanned only when there is no such asset digest.
C25_AssetDigestFirst ==
    C25_Verified =>
        /\ (C25_Prefixed /\ Len(C25_Digest) > 1) =>
              ((fn.result = "True") <=> (fn.file.sha = Tail(C25_Digest)))
        /\ (C25_Prefixed /\ Len(C25_Digest) = 1) => fn.result = "True"
        /\ (~C25_Prefixed /\ C25_Digest # NullDigest /\ fn.info.body # <<>>) =>
              ((fn.result = "True") <=>
                 (fn.file.sha = SubSeq(Lower(fn.info.body[1].hex), 1, HexLen)))

\* a file with the hash of the asset record is accepted although the release body
\* lists another hash for its name
C25_Witness ==
    /\ C25_Verified /\ fn.result = "True"
    /\ C25_Digest = <<"sha256:">> \o fn.file.sha
    /\ fn.info.body # <<>>
    /\ Lower(fn.info.body[1].hex) # fn.file.sha

\* C26 as claimed: _verify_zip_integrity yields True or False for every release
\* descriptor and never raises to its caller, also when the digest field of the
\* matching asset is null, empty, or lacks the sha256: prefix.
C26_VerifyNeverRaises ==
    (fn.op = "verify" /\ fn.result # "none") => fn.result \in {"True", "False"}

----------------------------------------------------------------------------
(* The archives the loop works with *)

\* C27 as claimed: every archive run_update installs into a folder or extracts
\* dependencies from has passed _verify_zip_integrity earlier in the same run (the
\* paths download_latest_release collected in downloaded_files), on every way into
\* the loop: download, cache hit, and the local archive taken after a failure.
C27_InstalledVerified ==
    \A i \in Folders :
        /\ target[i].installed # NoPath => target[i].installed \in Range(downloaded_files)
        /\ target[i].deps # NoPath => target[i].deps \in Range(downloaded_files)

\* C28 as claimed: after download_latest_release succeeded, the archive installed
\* into a folder is the verified minimal artifact and the archive the dependencies
\* are extracted from is the verified full artifact, for every pair of tokens and
\* every staging path.
C28_ArtifactsByRole ==
    run.abort = "none" =>
        \A i \in Folders :
            /\ target[i].installed # NoPath => target[i].installed = ZipPath(LiteName)
            /\ target[i].deps # NoPath => target[i].deps = ZipPath(FullName)

\* C29 as claimed: extract_zip_with_progress and extract_deps_from_full_zip return
\* True or False for every archive that opens, also one whose entries total zero
\* bytes; nothing is raised out of run_update, so the later folders and the
\* cleanup at the end of the run still take place.
C29_ExtractionNeverRaises ==
    /\ run.ret # "Raise"
    /\ pc # "raised"
    /\ (Ended /\ index > 0) => \A i \in Folders : Attempted(i)

----------------------------------------------------------------------------
(* What the steps of the loop leave alone *)

\* C30 as claimed: no step of the loop on any folder deletes or modifies the
\* staged artifacts or the config backup of another folder: after every folder's
\* wipe the verified artifacts are still in the staging folder, unchanged, for
\* every combination of folder paths and staging path.
C30_StagingLeftAlone ==
    [][InLoop =>
         /\ zip_dir' = zip_dir
         /\ \A j \in Folders :
              (j # index /\ BackedUp(j)) => backup'[Key(j)] = backup[Key(j)]]_vars

====
